---- MODULE Spec2Model ----
(***************************************************************************)
(* Model of src-tauri/src/lib.rs of hq-docs-app: the scope expander, the   *)
(* recursive tree scanner, the scan orchestrator and the debounced change  *)
(* watcher.                                                                *)
(*                                                                         *)
(* A file name is the sequence of its bytes, a path the sequence of its    *)
(* components below "/".  The filesystem is a set of directory entries;    *)
(* it belongs to the environment and may change between two system calls   *)
(* of the program.  The title and the modified time of a node come from    *)
(* collaborators that read file contents and clocks; they take no part in  *)
(* any decision of the scanner and are left out of the node record.        *)
(***************************************************************************)
EXTENDS Integers, Sequences, FiniteSets, TLC

VARIABLES
    fs,          \* the filesystem: a set of directory entries
    fsChanges,   \* changes the environment has made during the running command
    pc,          \* scan_hq_directory: position of the command
    scopes,      \* scan_hq_directory: scope patterns not yet expanded
    scope_paths, \* scan_hq_directory: concrete paths of the current scope, not yet visited
    results,     \* scan_hq_directory: the result list under construction
    ret,         \* scan_hq_directory: the value returned by the last call
    hq_path,     \* scan_hq_directory / start_watching: the hq_path argument
    stack,       \* scan_dir_recursive run step by step: its call stack
    rret,        \* scan_dir_recursive run step by step: the last returned value
    slot,        \* WatcherState._debouncer: None, or the debouncer held
    debouncers,  \* the debouncers created so far, by identity: watches, dropped, installed
    wpc,         \* start_watching / stop_watching: position of the command thread
    wlocal,      \* start_watching: its locals (dirs, the new debouncer, slot on entry)
    wret,        \* the result of the last watcher command
    batches,     \* notification threads: id -> events of the running callback not yet handled
    sink,        \* the events emitted to the frontend ("fs-change")
    quiet        \* stop_watching has returned and no start_watching has succeeded since

fsVars    == <<fs, fsChanges>>
scanVars  == <<pc, scopes, scope_paths, results, ret, hq_path>>
recVars   == <<stack, rret>>
watchVars == <<slot, debouncers, wpc, wlocal, wret, batches, sink, quiet>>
vars      == <<fs, fsChanges, pc, scopes, scope_paths, results, ret, hq_path, stack, rret,
               slot, debouncers, wpc, wlocal, wret, batches, sink, quiet>>

----------------------------------------------------------------------------
(* Names used by the bounded filesystems and inputs, as byte sequences.    *)

n_hq   == <<104, 113>>             \* "hq"
n_a    == <<97>>                   \* "a"
n_b    == <<98>>                   \* "b"
n_S    == <<83>>                   \* "S"
n_e    == <<101>>                  \* "e"
n_z    == <<122>>                  \* "z"
n_git  == <<46, 103, 105, 116>>    \* ".git"
n_md   == <<110, 46, 109, 100>>    \* "n.md"
n_txt  == <<120, 46, 116, 120, 116>> \* "x.txt"
n_nohq == <<110, 111, 104, 113>>   \* "nohq"
n_dist == <<100, 105, 115, 116>>   \* "dist"
STAR   == <<42>>                   \* "*"

----------------------------------------------------------------------------
(* Strings and paths.                                                      *)

\* str::starts_with(char)
starts_with(name, c) == Len(name) >= 1 /\ name[1] = c

\* str::ends_with(&str)
ends_with(name, suffix) ==
    /\ Len(name) >= Len(suffix)
    /\ SubSeq(name, Len(name) - Len(suffix) + 1, Len(name)) = suffix

\* Ord for OsString: byte-wise lexicographic, a proper prefix first.
RECURSIVE BytesLess(_, _)
BytesLess(x, y) ==
    IF y = <<>> THEN FALSE
    ELSE IF x = <<>> THEN TRUE
    ELSE IF Head(x) # Head(y) THEN Head(x) < Head(y)
    ELSE BytesLess(Tail(x), Tail(y))

\* Path::join of one component, and Path::file_name.
join(path, name) == Append(path, name)
Front(path)      == SubSeq(path, 1, Len(path) - 1)
file_name(path)  == path[Len(path)]

IsPrefix(p, q) == Len(p) <= Len(q) /\ SubSeq(q, 1, Len(p)) = p

----------------------------------------------------------------------------
(* Exclusion policy.                                                       *)

ExcludedNames ==
    { <<110, 111, 100, 101, 95, 109, 111, 100, 117, 108, 101, 115>>,  \* "node_modules"
      <<46, 103, 105, 116>>,                                         \* ".git"
      <<100, 105, 115, 116>>,                                        \* "dist"
      <<46, 110, 101, 120, 116>>,                                    \* ".next"
      <<46, 116, 117, 114, 98, 111>>,                                \* ".turbo"
      <<46, 118, 101, 114, 99, 101, 108>>,                           \* ".vercel"
      <<116, 97, 114, 103, 101, 116>>,                               \* "target"
      <<46, 68, 83, 95, 83, 116, 111, 114, 101>>,                    \* ".DS_Store"
      <<116, 104, 117, 109, 98, 115, 46, 100, 98>> }                 \* "thumbs.db"

\* fn should_exclude(name: &str) -> bool
should_exclude(name) == name \in ExcludedNames \/ starts_with(name, 46)

\* const WATCH_EXCLUDES
WATCH_EXCLUDES == ExcludedNames

----------------------------------------------------------------------------
(* The filesystem as the program's system calls see it.  An entry is       *)
(* [dir, name, kind, target, readable]: dir is the canonical path of the   *)
(* real directory holding it, kind one of "dir", "file", "symlink"; a      *)
(* symlink's target is a canonical path; readable tells whether read_dir   *)
(* on a real directory is permitted.                                       *)

Dir(d, n, r)     == [dir |-> d, name |-> n, kind |-> "dir", target |-> <<>>, readable |-> r]
File(d, n)       == [dir |-> d, name |-> n, kind |-> "file", target |-> <<>>, readable |-> TRUE]
Symlink(d, n, t) == [dir |-> d, name |-> n, kind |-> "symlink", target |-> t, readable |-> TRUE]

NotFound == [ok |-> FALSE, kind |-> "none", canon |-> <<>>]

\* What the canonical path p is: "dir", "file" or "none".
RealKind(f, p) ==
    IF p = <<>> THEN "dir"
    ELSE LET es == {e \in f : e.dir = Front(p) /\ e.name = file_name(p) /\ e.kind # "symlink"}
         IN IF es = {} THEN "none" ELSE (CHOOSE e \in es : TRUE).kind

\* The one element of a singleton set.  Operators below bind a value they use
\* several times as  {body : x \in {value}}  so that it is computed once.
Pick(S) == CHOOSE r \in S : TRUE

NoEntry == [dir |-> <<>>, name |-> <<>>, kind |-> "none", target |-> <<>>, readable |-> FALSE]

\* The entry called name in the real directory cur, NoEntry if there is none.
Lookup(f, cur, name) ==
    LET es == {e \in f : e.dir = cur /\ e.name = name}
    IN IF es = {} THEN {NoEntry} ELSE es

\* Path resolution following symlinks, from the real directory cur.  Follow
\* steps through the entry e and resolves rest from there.
RECURSIVE Walk(_, _, _), Follow(_, _, _)
Walk(f, cur, rest) ==
    IF rest = <<>> THEN [ok |-> TRUE, kind |-> "dir", canon |-> cur]
    ELSE Pick({Follow(f, e, Tail(rest)) : e \in Lookup(f, cur, Head(rest))})

Follow(f, e, rest) ==
    LET to == IF e.kind = "symlink" THEN e.target ELSE join(e.dir, e.name)
        k  == IF e.kind = "symlink" THEN RealKind(f, e.target) ELSE e.kind
    IN IF k = "dir" THEN Walk(f, to, rest)
       ELSE IF k = "file" /\ rest = <<>>
            THEN [ok |-> TRUE, kind |-> "file", canon |-> to]
       ELSE NotFound

\* fs::metadata(path): follows symlinks.
metadata(f, path) == Walk(f, <<>>, path)

\* Path::is_dir
is_dir(f, path) == metadata(f, path).ok /\ metadata(f, path).kind = "dir"

\* Path::exists
exists(f, path) == metadata(f, path).ok

\* fs::canonicalize(path): Ok(canonical path) or Err.
canonicalize(f, path) == metadata(f, path)

\* fs::read_dir(path): Err, or the entries of the directory path resolves to.
\* DirEntry::path() is the path given to read_dir joined with the entry's name.
read_dir(f, path) ==
    Pick({ LET self == {e \in f : m.canon # <<>> /\ e.dir = Front(m.canon)
                                                /\ e.name = file_name(m.canon)}
               allowed == \A e \in self : e.kind = "symlink" \/ e.readable
           IN IF m.ok /\ m.kind = "dir" /\ allowed
              THEN [ok |-> TRUE, entries |-> {e \in f : e.dir = m.canon}]
              ELSE [ok |-> FALSE, entries |-> {}]
         : m \in {metadata(f, path)} })

----------------------------------------------------------------------------
(* Tree scanner.                                                           *)

\* The depth bound scan_hq_directory passes to scan_dir_recursive.
MaxDepth == 15

\* Option<FileTreeNode>
None       == [some |-> FALSE]
Some(node) == [some |-> TRUE, node |-> node]

\* struct FileTreeNode (title and modified left out, see the head of the module)
FileTreeNode(name, path, is_directory, children, depth, file_count) ==
    [name |-> name, path |-> path, is_directory |-> is_directory,
     children |-> children, depth |-> depth, file_count |-> file_count]

\* The comparator of entries_vec.sort_by: DirEntry::file_type does not follow
\* symlinks, so only real directories count as directories here.
entry_less(a, b) ==
    LET a_is_dir == a.kind = "dir"
        b_is_dir == b.kind = "dir"
    IN IF a_is_dir /\ ~b_is_dir THEN TRUE
       ELSE IF ~a_is_dir /\ b_is_dir THEN FALSE
       ELSE BytesLess(a.name, b.name)

\* entries_vec after sort_by: the entries of a directory have distinct names, so
\* the comparator is a strict total order and the sorted vector is unique: each
\* entry stands behind the entries that compare less.
sort_by(S) ==
    Pick({ [i \in 1..Cardinality(T) |->
               CHOOSE a \in T : Cardinality({b \in T : entry_less(b, a)}) = i - 1]
         : T \in {S} })

depth_exceeded_late(depth, max_depth) == depth > max_depth + 1

\* if depth > max_depth { return None; }
depth_exceeded(depth, max_depth) == depth > max_depth

keep_child_any(child) == child.some

\* if let Some(child) = ... { if child.file_count > 0 { ... } }
keep_child(child) == child.some /\ child.node.file_count > 0

\* metadata.is_file() && name.ends_with(".md")
is_markdown_file(md, name) == md.kind = "file" /\ ends_with(name, <<46, 109, 100>>)

\* let canonical = fs::canonicalize(path).unwrap_or_else(|_| path.to_path_buf());
canonical_of(f, path) ==
    LET c == canonicalize(f, path) IN IF c.ok THEN c.canon ELSE path

\* The two early returns of scan_dir_recursive: the depth bound, and read_dir failing.
returns_none(f, path, depth, max_depth) ==
    \/ depth_exceeded(depth, max_depth)
    \/ ~read_dir(f, canonical_of(f, path)).ok

\* The activation record of one call of scan_dir_recursive when it reaches its
\* loop: entries_vec is sorted, i is the entry the loop handles next.
Frame(f, path, depth, max_depth) ==
    Pick({ [path        |-> path,
            canonical   |-> canonical,
            depth       |-> depth,
            max_depth   |-> max_depth,
            entries_vec |-> sort_by(read_dir(f, canonical).entries),
            i           |-> 1,
            children    |-> <<>>,
            file_count  |-> 0]
         : canonical \in {canonical_of(f, path)} })

\* The call stack st after calling scan_dir_recursive(path, depth, max_depth): a
\* call that returns None at once leaves no activation record.
call(st, f, path, depth, max_depth) ==
    IF returns_none(f, path, depth, max_depth) THEN st
    ELSE Append(st, Frame(f, path, depth, max_depth))

\* children.push(FileTreeNode { .. is_directory: false, depth: depth + 1, file_count: 0 })
push_file(fr, name, entry_path) ==
    [fr EXCEPT !.children = Append(@, FileTreeNode(name, entry_path, FALSE, <<>>, fr.depth + 1, 0)),
               !.file_count = @ + 1]

push_child_uncounted(fr, child) ==
    IF child.some /\ child.node.file_count > 0
    THEN [fr EXCEPT !.children = Append(@, child.node)]
    ELSE fr

\* if child.file_count > 0 { file_count += child.file_count; children.push(child); }
push_child(fr, child) ==
    IF keep_child(child)
    THEN [fr EXCEPT !.children = Append(@, child.node),
                    !.file_count = @ + child.node.file_count]
    ELSE fr

\* Some(FileTreeNode { name: dir_name, path, is_directory: true, children, depth, file_count })
dir_node(fr) ==
    FileTreeNode(file_name(fr.path), fr.path, TRUE, fr.children, fr.depth, fr.file_count)

Top(st)           == st[Len(st)]
SetTop(st, fr)    == [st EXCEPT ![Len(st)] = fr]

\* One turn of `for entry in entries_vec` in the running call; a directory entry
\* calls scan_dir_recursive on it.
RecEntry ==
    /\ stack # <<>>
    /\ Top(stack).i <= Len(Top(stack).entries_vec)
    /\ LET fr         == Top(stack)
           entry      == fr.entries_vec[fr.i]
           name       == entry.name
           entry_path == join(fr.canonical, name)
           md         == metadata(fs, entry_path)
           adv        == [fr EXCEPT !.i = @ + 1]
       IN stack' =
            IF should_exclude(name) THEN SetTop(stack, adv)
            ELSE IF ~md.ok THEN SetTop(stack, adv)
            ELSE IF md.kind = "dir"
                 THEN call(SetTop(stack, adv), fs, entry_path, fr.depth + 1, fr.max_depth)
            ELSE IF is_markdown_file(md, name)
                 THEN SetTop(stack, push_file(adv, name, entry_path))
            ELSE SetTop(stack, adv)
    /\ UNCHANGED <<rret, fsVars, scanVars, watchVars>>

\* The running call returns its node: to the loop of the calling activation, or,
\* from the outermost call, to the caller of the scan.
RecReturn ==
    /\ stack # <<>>
    /\ Top(stack).i > Len(Top(stack).entries_vec)
    /\ LET child == Some(dir_node(Top(stack)))
           rest  == SubSeq(stack, 1, Len(stack) - 1)
       IN IF rest = <<>>
          THEN /\ stack' = <<>>
               /\ rret' = child
          ELSE /\ stack' = SetTop(rest, push_child(Top(rest), child))
               /\ rret' = rret
    /\ UNCHANGED <<fsVars, scanVars, watchVars>>

----------------------------------------------------------------------------
(* Scope expander.                                                         *)

\* parts.iter().position(|&p| p == "*"), 0 for None
wildcard_pos(parts) ==
    IF \E i \in 1..Len(parts) : parts[i] = STAR
    THEN CHOOSE i \in 1..Len(parts) : parts[i] = STAR /\ \A j \in 1..(i - 1) : parts[j] # STAR
    ELSE 0

\* The orders in which a directory listing may hand out the set S.
Listings(S) ==
    {l \in [1..Cardinality(S) -> S] : \A i, j \in 1..Cardinality(S) : i # j => l[i] # l[j]}

is_dir_only(e) == e.kind = "dir"

\* e.file_type().map(|t| t.is_dir() || t.is_symlink()).unwrap_or(false)
is_dir_or_symlink(e) == e.kind \in {"dir", "symlink"}

\* fn expand_scope(hq, scope) -> Vec<PathBuf>: the vectors it may return.  read_dir
\* yields the entries in an order of the system's choosing and the filters keep
\* that order, so every order of the surviving entries is a possible result.
expand_scope(f, hq, scope) ==
    LET parts == scope
        pos   == wildcard_pos(parts)
    IN IF pos = 0 THEN {<<hq \o scope>>}
       ELSE LET prefix_path  == hq \o SubSeq(parts, 1, pos - 1)
                suffix_parts == SubSeq(parts, pos + 1, Len(parts))
                rd           == read_dir(f, prefix_path)
                full(e)      == join(prefix_path, e.name) \o suffix_parts
                kept == {e \in rd.entries :
                            /\ is_dir_or_symlink(e)
                            /\ ~should_exclude(e.name)
                            /\ \/ is_dir(f, full(e))
                               \/ canonicalize(f, full(e)).ok /\ is_dir(f, canonicalize(f, full(e)).canon)}
            IN IF ~rd.ok THEN {<<>>}
               ELSE {[i \in 1..Cardinality(kept) |-> full(l[i])] : l \in Listings(kept)}

----------------------------------------------------------------------------
(* The bounded filesystems and inputs.                                     *)

HQ   == <<n_hq>>
A    == <<n_hq, n_a>>

\* "/hq" is always there.
Base == {Dir(<<>>, n_hq, TRUE)}

E    == <<n_hq, n_a, n_e>>

\* The entries another process may create or remove.
Universe ==
    { Dir(HQ, n_a, TRUE),
      File(A, n_md),
      Dir(A, n_S, TRUE), Dir(A, n_S, FALSE), File(join(A, n_S), n_md),
      Symlink(A, n_z, join(A, n_S)),
      Dir(A, n_e, TRUE), File(E, n_txt), File(E, n_md), Symlink(E, n_z, E),
      Dir(A, n_git, TRUE), File(join(A, n_git), n_md),
      Symlink(HQ, n_b, A), Symlink(HQ, n_b, join(A, n_md)) }

\* A filesystem: names are unique within a directory and every entry lies in
\* a real directory.
WellFormed(f) ==
    /\ Base \subseteq f
    /\ \A e1, e2 \in f : e1.dir = e2.dir /\ e1.name = e2.name => e1 = e2
    /\ \A e \in f : RealKind(f, e.dir) = "dir"

\* The filesystems a command may start in.  "/hq/a" holds any choice of
\*   n.md;  S/n.md, with S readable or not, or with z, a symlink to S, beside it;
\*   .git/n.md;
\*   e: empty, or holding x.txt, or holding n.md and z, a symlink back to e;
\* beside it b is a symlink to a or to a/n.md (dangling when its target is absent).
Options ==
    [md : {{}, {File(A, n_md)}},
     S  : {{}, {Dir(A, n_S, TRUE), File(join(A, n_S), n_md)},
               {Dir(A, n_S, FALSE), File(join(A, n_S), n_md)},
               {Dir(A, n_S, TRUE), File(join(A, n_S), n_md), Symlink(A, n_z, join(A, n_S))}},
     e  : {{}, {Dir(A, n_e, TRUE)}, {Dir(A, n_e, TRUE), File(E, n_txt)},
               {Dir(A, n_e, TRUE), File(E, n_md), Symlink(E, n_z, E)}},
     git: {{}, {Dir(A, n_git, TRUE), File(join(A, n_git), n_md)}},
     b  : {{Symlink(HQ, n_b, A)}, {Symlink(HQ, n_b, join(A, n_md))}}]

FileSystems ==
    {Base \cup {Dir(HQ, n_a, TRUE)} \cup o.md \cup o.S \cup o.e \cup o.git \cup o.b : o \in Options}
    \cup {Base, Base \cup {Symlink(HQ, n_b, A)}}

\* Changes the environment may make during one command.
MaxFsChanges == 1

\* Patterns per call.
MaxScopes == 1

HqPaths == {HQ, <<n_nohq>>}

ScopePatterns ==
    { <<n_a>>, <<n_b>>, <<STAR>>, <<n_a, STAR>>, <<n_a, n_git>>, <<STAR, n_S>> }

ScopeLists == UNION {[1..n -> ScopePatterns] : n \in 0..MaxScopes}

----------------------------------------------------------------------------
(* The environment: another process creates or removes one entry (mkdir,   *)
(* rmdir of an empty directory, create, unlink, symlink) between two       *)
(* steps of a scan, or while a debouncer exists.                           *)

FsChange ==
    /\ \/ pc \in {"scopes", "paths", "retry", "direct"}
       \/ \E id \in DOMAIN debouncers : ~debouncers[id].dropped
    /\ fsChanges < MaxFsChanges
    /\ \E e \in Universe :
          LET f2 == IF e \in fs THEN fs \ {e} ELSE fs \cup {e}
          IN /\ WellFormed(f2)
             /\ fs' = f2
    /\ fsChanges' = fsChanges + 1
    /\ UNCHANGED <<scanVars, recVars, watchVars>>

----------------------------------------------------------------------------
(* Scan orchestrator: fn scan_hq_directory(hq_path, scopes).               *)

NoRet      == [status |-> "none", value |-> <<>>]
Ok(v)      == [status |-> "ok", value |-> v]
Err        == [status |-> "err", value |-> <<>>]

\* The call, up to the first pattern: Err when hq_path is not a directory.
\* A behaviour holds one call of the command, from any of the filesystems.
ScanCall(h, scs) ==
    /\ pc = "idle"
    /\ ret = NoRet
    /\ hq_path' = h
    /\ fsChanges' = 0
    /\ results' = <<>>
    /\ scope_paths' = <<>>
    /\ IF ~is_dir(fs, h)
       THEN /\ ret' = Err
            /\ pc' = "idle"
            /\ scopes' = <<>>
       ELSE /\ ret' = NoRet
            /\ pc' = "scopes"
            /\ scopes' = scs
    /\ UNCHANGED <<fs, recVars, watchVars>>

\* for scope in &scopes { let scope_paths = expand_scope(&hq, scope); ...
ScanExpand ==
    /\ pc = "scopes"
    /\ scopes # <<>>
    /\ \E v \in expand_scope(fs, hq_path, Head(scopes)) :
          /\ scope_paths' = v
          /\ pc' = IF v = <<>> THEN "scopes" ELSE "paths"
    /\ scopes' = Tail(scopes)
    /\ UNCHANGED <<results, ret, hq_path, fsVars, recVars, watchVars>>

\* if !scope_path.is_dir() { ... }
ScanIsDir ==
    /\ pc = "paths"
    /\ pc' = IF is_dir(fs, Head(scope_paths)) THEN "direct" ELSE "retry"
    /\ UNCHANGED <<scopes, scope_paths, results, ret, hq_path, fsVars, recVars, watchVars>>

AfterPath == IF Tail(scope_paths) = <<>> THEN "scopes" ELSE "paths"

\* Under `if !scope_path.is_dir()`: canonicalize, and when that gives a
\* directory, call scan_dir_recursive(&scope_path, 0, 15).
ScanRetry ==
    /\ pc = "retry"
    /\ LET scope_path == Head(scope_paths)
           c          == canonicalize(fs, scope_path)
       IN IF c.ok /\ is_dir(fs, c.canon)
          THEN /\ stack' = call(<<>>, fs, scope_path, 0, MaxDepth)
               /\ rret' = None
               /\ pc' = "retry_scan"
               /\ UNCHANGED scope_paths
          ELSE /\ scope_paths' = Tail(scope_paths)
               /\ pc' = AfterPath
               /\ UNCHANGED recVars
    /\ UNCHANGED <<scopes, results, ret, hq_path, fsVars, watchVars>>

\* if let Some(mut node) = .. { node.path = scope_path; results.push(node); } continue;
retry_push(node) == TRUE

ScanRetryPush ==
    /\ pc = "retry_scan"
    /\ stack = <<>>
    /\ results' = IF rret.some /\ retry_push(rret.node)
                  THEN Append(results, [rret.node EXCEPT !.path = Head(scope_paths)])
                  ELSE results
    /\ rret' = None
    /\ scope_paths' = Tail(scope_paths)
    /\ pc' = AfterPath
    /\ UNCHANGED <<stack, scopes, ret, hq_path, fsVars, watchVars>>

\* scan_dir_recursive(&scope_path, 0, 15) of a path that is a directory.
ScanDirect ==
    /\ pc = "direct"
    /\ stack' = call(<<>>, fs, Head(scope_paths), 0, MaxDepth)
    /\ rret' = None
    /\ pc' = "direct_scan"
    /\ UNCHANGED <<scopes, scope_paths, results, ret, hq_path, fsVars, watchVars>>

\* if let Some(node) = .. { if node.file_count > 0 { results.push(node); } }
direct_push(node) == node.file_count > 0

ScanDirectPush ==
    /\ pc = "direct_scan"
    /\ stack = <<>>
    /\ results' = IF rret.some /\ direct_push(rret.node)
                  THEN Append(results, rret.node)
                  ELSE results
    /\ rret' = None
    /\ scope_paths' = Tail(scope_paths)
    /\ pc' = AfterPath
    /\ UNCHANGED <<stack, scopes, ret, hq_path, fsVars, watchVars>>

\* Ok(results)
ScanReturn ==
    /\ pc = "scopes"
    /\ scopes = <<>>
    /\ ret' = Ok(results)
    /\ pc' = "idle"
    /\ UNCHANGED <<scopes, scope_paths, results, hq_path, fsVars, recVars, watchVars>>

ScanIdle ==
    /\ pc = "idle" /\ scopes = <<>> /\ scope_paths = <<>> /\ results = <<>>
    /\ ret = NoRet /\ hq_path = HQ
RecIdle   == stack = <<>> /\ rret = None
\* .manage(Mutex::new(WatcherState { _debouncer: None }))
NoLocal   == [dirs |-> <<>>, k |-> 0, id |-> 0, slot0 |-> 0]
WatchIdle ==
    /\ slot = 0 /\ debouncers = <<>> /\ wpc = "idle" /\ wlocal = NoLocal
    /\ wret = "none" /\ batches = <<>> /\ sink = <<>> /\ quiet = FALSE

Init ==
    /\ fs \in FileSystems
    /\ fsChanges = 0
    /\ ScanIdle
    /\ RecIdle
    /\ WatchIdle

Next ==
    \/ \E h \in HqPaths, scs \in ScopeLists : ScanCall(h, scs)
    \/ ScanExpand
    \/ ScanIsDir
    \/ ScanRetry
    \/ ScanRetryPush
    \/ ScanDirect
    \/ ScanDirectPush
    \/ ScanReturn
    \/ RecEntry
    \/ RecReturn
    \/ FsChange

Spec == Init /\ [][Next]_vars

----------------------------------------------------------------------------
(* scan_dir_recursive on its own: any caller, any root, depth 0.           *)

RecPaths == {HQ, A, join(HQ, n_b), join(E, n_z), join(A, n_S), <<n_nohq>>}

RecStart(path) ==
    /\ pc = "idle"
    /\ stack = <<>>
    /\ rret = None
    /\ stack' = call(<<>>, fs, path, 0, MaxDepth)
    /\ rret' = None
    /\ UNCHANGED <<fsVars, scanVars, watchVars>>

NextRec ==
    \/ \E path \in RecPaths : RecStart(path)
    \/ RecEntry
    \/ RecReturn

\* A call that has started keeps running: its thread is not suspended for ever.
SpecRec == Init /\ [][NextRec]_vars /\ WF_vars(RecEntry \/ RecReturn)

----------------------------------------------------------------------------
(* expand_scope on its own: any hq, any pattern.                           *)

ExpandPatterns == ScopePatterns \cup { <<n_a, n_S, STAR>>, <<n_b, STAR>>, <<n_a, n_e, STAR>> }

ExpandCall(h, scope) ==
    /\ pc = "idle"
    /\ hq_path' = h
    /\ scopes' = <<scope>>
    /\ \E v \in expand_scope(fs, h, scope) : scope_paths' = v
    /\ pc' = "expanded"
    /\ UNCHANGED <<results, ret, fsVars, recVars, watchVars>>

\* The caller lets go of the vector.
ExpandDone ==
    /\ pc = "expanded"
    /\ pc' = "idle"
    /\ hq_path' = HQ
    /\ scopes' = <<>>
    /\ scope_paths' = <<>>
    /\ UNCHANGED <<results, ret, fsVars, recVars, watchVars>>

NextExpand ==
    \/ \E h \in HqPaths, scope \in ExpandPatterns : ExpandCall(h, scope)
    \/ ExpandDone

SpecExpand == Init /\ [][NextExpand]_vars

----------------------------------------------------------------------------
(* Change watcher: start_watching, stop_watching and the callback handed   *)
(* to new_debouncer.  The commands run one at a time on the command        *)
(* thread; every debouncer has a notification thread of its own that runs  *)
(* the callback on one batch of debounced events at a time.  A debouncer   *)
(* is [watched, dropped, installed]: the directories registered on its     *)
(* watcher, whether it has been dropped, whether it was ever stored in     *)
(* WatcherState.  Dropping a debouncer releases its watches and tells its  *)
(* thread to shut down without waiting for it: no batch starts afterwards, *)
(* and a callback that is running goes on, since its loop looks at nothing *)
(* but the events it was given.                                            *)

\* Debouncers created in one behaviour.
MaxDebouncers == 2

\* Debounced events handed to callbacks and not skipped, in one behaviour.
MaxEvents == 2

\* Events in one batch.
MaxBatch == 2

Debouncer == [watched |-> {}, dropped |-> FALSE, installed |-> FALSE]

\* A debouncer goes out of scope or is overwritten in the slot; id 0 is None.
drop(ds, id) == IF id = 0 THEN ds ELSE [ds EXCEPT ![id].dropped = TRUE]

\* if dir.is_dir() {..} else if let Ok(canonical) = fs::canonicalize(&dir) { if canonical.is_dir() {..} }
is_watchable(f, dir) ==
    \/ is_dir(f, dir)
    \/ canonicalize(f, dir).ok /\ is_dir(f, canonicalize(f, dir).canon)

\* The vectors `dirs` may hold after the loop over the scopes.
RECURSIVE collect_dirs(_, _, _)
collect_dirs(f, hq, scs) ==
    IF scs = <<>> THEN {<<>>}
    ELSE { SelectSeq(expanded, LAMBDA dir : is_watchable(f, dir)) \o rest :
              expanded \in expand_scope(f, hq, Head(scs)),
              rest \in collect_dirs(f, hq, Tail(scs)) }

\* start_watching up to new_debouncer: the two early error returns.
StartCall(h, scs) ==
    /\ wpc = "idle"
    /\ Len(debouncers) < MaxDebouncers
    /\ IF ~is_dir(fs, h)
       THEN /\ wret' = "err"
            /\ UNCHANGED <<wpc, wlocal>>
       ELSE \E dirs \in collect_dirs(fs, h, scs) :
               IF dirs = <<>>
               THEN /\ wret' = "err"
                    /\ UNCHANGED <<wpc, wlocal>>
               ELSE /\ wret' = "none"
                    /\ wpc' = "create"
                    /\ wlocal' = [dirs |-> dirs, k |-> 1, id |-> 0, slot0 |-> slot]
    /\ UNCHANGED <<slot, debouncers, batches, sink, quiet, fsVars, scanVars, recVars>>

\* let mut debouncer = new_debouncer(..).map_err(..)?;
StartCreate ==
    /\ wpc = "create"
    /\ \/ /\ debouncers' = Append(debouncers, Debouncer)
          /\ batches' = Append(batches, <<>>)
          /\ wlocal' = [wlocal EXCEPT !.id = Len(debouncers) + 1]
          /\ wpc' = "watch"
          /\ UNCHANGED wret
       \/ /\ wret' = "err"
          /\ wpc' = "idle"
          /\ wlocal' = NoLocal
          /\ UNCHANGED <<debouncers, batches>>
    /\ UNCHANGED <<slot, sink, quiet, fsVars, scanVars, recVars>>

\* for dir in &dirs { debouncer.watcher().watch(dir, Recursive).map_err(..)?; }
\* one turn: the watch is registered, or it fails and `?` returns, dropping
\* the new debouncer.
StartWatch ==
    /\ wpc = "watch"
    /\ \/ /\ debouncers' = [debouncers EXCEPT ![wlocal.id].watched = @ \cup {wlocal.dirs[wlocal.k]}]
          /\ wlocal' = [wlocal EXCEPT !.k = @ + 1]
          /\ wpc' = IF wlocal.k < Len(wlocal.dirs) THEN "watch" ELSE "install"
          /\ UNCHANGED wret
       \/ /\ debouncers' = drop(debouncers, wlocal.id)
          /\ wret' = "err"
          /\ wpc' = "idle"
          /\ wlocal' = NoLocal
    /\ UNCHANGED <<slot, batches, sink, quiet, fsVars, scanVars, recVars>>

\* let mut guard = state.lock()..; guard._debouncer = Some(debouncer); Ok(())
\* The assignment drops the debouncer the slot held.
StartInstall ==
    /\ wpc = "install"
    /\ slot' = wlocal.id
    /\ debouncers' = [drop(debouncers, slot) EXCEPT ![wlocal.id].installed = TRUE]
    /\ wret' = "ok"
    /\ wpc' = "idle"
    /\ wlocal' = NoLocal
    /\ quiet' = FALSE
    /\ UNCHANGED <<batches, sink, fsVars, scanVars, recVars>>

\* fn stop_watching: guard._debouncer = None; Ok(())
StopWatching ==
    /\ wpc = "idle"
    /\ slot' = 0
    /\ debouncers' = drop(debouncers, slot)
    /\ wret' = "ok"
    /\ quiet' = TRUE
    /\ UNCHANGED <<wpc, wlocal, batches, sink, fsVars, scanVars, recVars>>

\* DebouncedEventKind
EventKinds == {"Any", "AnyContinuous"}

\* The paths a recursive watch of dir reports in the bounded filesystems.
EventPaths(dir) == {join(dir, n_md), join(join(dir, n_git), n_md)}

DebouncedEvent(path, kind) == [path |-> path, kind |-> kind]

Events(id) ==
    {DebouncedEvent(p, k) : p \in UNION {EventPaths(d) : d \in debouncers[id].watched},
                            k \in EventKinds}

\* Events handed to callbacks and not yet handled.
Pending == Cardinality(UNION {{<<id, k>> : k \in DOMAIN batches[id]} : id \in DOMAIN batches})

\* The notification thread of debouncer id calls the callback with Ok(events).
NotifyBatch(id) ==
    /\ id \in DOMAIN debouncers
    /\ ~debouncers[id].dropped
    /\ batches[id] = <<>>
    /\ \E n \in 1..MaxBatch : \E events \in [1..n -> Events(id)] :
          /\ Len(sink) + Pending + n <= MaxEvents
          /\ batches' = [batches EXCEPT ![id] = events]
    /\ UNCHANGED <<slot, debouncers, wpc, wlocal, wret, sink, quiet, fsVars, scanVars, recVars>>

\* event.path.components().any(|c| WATCH_EXCLUDES has c || c.starts_with('.'))
should_skip(path) ==
    \E i \in DOMAIN path : path[i] \in WATCH_EXCLUDES \/ starts_with(path[i], 46)

\* let kind = match event.kind { Any => if exists {"modify"} else {"remove"}, _ => "modify" }
event_kind(f, event) ==
    IF event.kind = "Any"
    THEN IF exists(f, event.path) THEN "modify" ELSE "remove"
    ELSE "modify"

\* struct FsChangeEvent
FsChangeEvent(path, kind) == [path |-> path, kind |-> kind]

\* One turn of `for event in events` in the callback of debouncer id.
CallbackEvent(id) ==
    /\ id \in DOMAIN batches
    /\ batches[id] # <<>>
    /\ LET event == Head(batches[id])
       IN sink' = IF should_skip(event.path) THEN sink
                  ELSE Append(sink, FsChangeEvent(event.path, event_kind(fs, event)))
    /\ batches' = [batches EXCEPT ![id] = Tail(@)]
    /\ UNCHANGED <<slot, debouncers, wpc, wlocal, wret, quiet, fsVars, scanVars, recVars>>

\* An hq folder below a directory with a denylisted name: "/dist/hq/a/n.md".
DistHQ   == <<n_dist, n_hq>>
DistTree ==
    { Dir(<<>>, n_dist, TRUE), Dir(<<n_dist>>, n_hq, TRUE), Dir(DistHQ, n_a, TRUE),
      File(join(DistHQ, n_a), n_md) }

WatchHqPaths == HqPaths \cup {DistHQ}

NextWatch ==
    \/ \E h \in WatchHqPaths, scs \in ScopeLists : StartCall(h, scs)
    \/ StartCreate
    \/ StartWatch
    \/ StartInstall
    \/ StopWatching
    \/ \E id \in 1..MaxDebouncers : NotifyBatch(id)
    \/ \E id \in 1..MaxDebouncers : CallbackEvent(id)
    \/ FsChange

\* The watcher is exercised on the filesystems whose "/hq/a" holds at most n.md,
\* and on one that also holds "/dist/hq".
WatchFileSystems ==
    {f \in FileSystems : \A e \in f : e.dir \in {<<>>, HQ, A} /\ e.name \notin {n_S, n_e, n_git}}
    \cup {Base \cup DistTree}

InitWatch == fs \in WatchFileSystems /\ fsChanges = 0 /\ ScanIdle /\ RecIdle /\ WatchIdle

SpecWatch == InitWatch /\ [][NextWatch]_vars

----------------------------------------------------------------------------
(* The trees scan_hq_directory returned.                                   *)

Returned == IF ret.status = "ok" THEN ret.value ELSE <<>>

\* A node of a tree is named by its position: the child indices leading to it.
RECURSIVE Positions(_)
Positions(node) ==
    {<<>>} \cup UNION {{<<i>> \o q : q \in Positions(node.children[i])} : i \in DOMAIN node.children}

RECURSIVE NodeAt(_, _)
NodeAt(node, pos) ==
    IF pos = <<>> THEN node ELSE NodeAt(node.children[Head(pos)], Tail(pos))

\* The nodes of the returned trees: <<i, pos>> is the node at pos of the i-th root.
NodeRefs == UNION {{<<i, q>> : q \in Positions(Returned[i])} : i \in DOMAIN Returned}
Node(r)  == NodeAt(Returned[r[1]], r[2])

Children(n) == {n.children[i] : i \in DOMAIN n.children}

----------------------------------------------------------------------------
\* C1: in every tree scan_hq_directory returns, the roots have depth 0, no node
\* (directory or Markdown file) has a depth greater than 15, and every child's
\* depth is its parent's depth plus 1.
C1_DepthBounded ==
    /\ \A i \in DOMAIN Returned : Returned[i].depth = 0
    /\ \A r \in NodeRefs :
          /\ Node(r).depth <= MaxDepth
          /\ \A c \in Children(Node(r)) : c.depth = Node(r).depth + 1

\* C2: every root node scan_hq_directory returns has fileCount > 0, on every
\* path through the orchestrator, the retry through canonicalize included.
C2_RootsHaveFiles ==
    /\ \A i \in DOMAIN Returned : Returned[i].file_count > 0
    /\ \A i \in DOMAIN results : results[i].file_count > 0

\* C3: a directory node is a child of its parent if and only if its fileCount is
\* greater than 0.  (1) No directory node with fileCount 0 is a child.  (2) When
\* the recursive scan of a subdirectory returns a node to the loop of its parent,
\* the node becomes the parent's last child exactly when its fileCount > 0.
\* (3) In a tree scanned from an unchanged filesystem, every non-excluded readable
\* subdirectory, above the depth bound, that holds a Markdown file is a child.
C3_NoEmptyChild ==
    \A r \in NodeRefs : \A c \in Children(Node(r)) : c.is_directory => c.file_count > 0

C3_Returned ==
    (Len(stack) >= 2 /\ Len(stack') = Len(stack) - 1) =>
        LET node   == dir_node(Top(stack))
            before == stack[Len(stack) - 1].children
            after  == Top(stack').children
        IN IF node.file_count > 0 THEN after = Append(before, node) ELSE after = before

HoldsMarkdown(f, dir) ==
    \E e \in read_dir(f, dir).entries :
        /\ ~should_exclude(e.name)
        /\ metadata(f, join(canonical_of(f, dir), e.name)).kind = "file"
        /\ ends_with(e.name, <<46, 109, 100>>)

C3_Present ==
    (pc = "idle" /\ fsChanges = 0) =>
        \A r \in NodeRefs : LET n == Node(r) IN
            (n.is_directory /\ n.depth < MaxDepth) =>
                \A e \in read_dir(fs, n.path).entries :
                    LET sub == join(canonical_of(fs, n.path), e.name)
                    IN (/\ ~should_exclude(e.name)
                        /\ is_dir(fs, sub)
                        /\ read_dir(fs, sub).ok
                        /\ HoldsMarkdown(fs, sub))
                       => \E c \in Children(n) : c.is_directory /\ c.name = e.name

\* C3: (1) and (3) in every state, (2) at every return of a recursive call.
C3_ChildIffFiles == [](C3_NoEmptyChild /\ C3_Present) /\ [][C3_Returned]_vars

\* A returned tree with a directory child, scanned from a directory that also
\* holds a non-excluded readable subdirectory that was pruned.
C3_Witness ==
    /\ pc = "idle" /\ fsChanges = 0
    /\ \E r \in NodeRefs : LET n == Node(r) IN
          /\ \E c \in Children(n) : c.is_directory
          /\ \E e \in read_dir(fs, n.path).entries :
                /\ ~should_exclude(e.name)
                /\ is_dir(fs, join(canonical_of(fs, n.path), e.name))
                /\ read_dir(fs, join(canonical_of(fs, n.path), e.name)).ok
                /\ \A c \in Children(n) : c.name # e.name

\* C4: no node of the output, root nodes included, has a name the exclusion
\* policy excludes; stated for the calls during which nobody changes the
\* filesystem.
C4_NoExcludedName ==
    fsChanges = 0 => \A r \in NodeRefs : ~should_exclude(Node(r).name)

\* C5: scan_dir_recursive terminates on every filesystem graph, symlink cycles
\* included: no call runs at a depth greater than max_depth (15), so the
\* recursion is never deeper than 16 activations, and every call that has
\* started returns.
C5_DepthCut ==
    /\ Len(stack) <= MaxDepth + 1
    /\ \A k \in DOMAIN stack : stack[k].depth = k - 1 /\ stack[k].depth <= stack[k].max_depth

\* C5: the depth cut holds in every state, and a scan that runs comes to its end.
C5_Terminates == []C5_DepthCut /\ ((stack # <<>>) ~> (stack = <<>>))

\* The call at depth 15 of a directory that holds a symlink back to an ancestor
\* has gone through its entries without descending further.
C5_Witness ==
    /\ Len(stack) = MaxDepth + 1
    /\ Top(stack).i > Len(Top(stack).entries_vec)
    /\ \E k \in DOMAIN Top(stack).entries_vec :
          LET e == Top(stack).entries_vec[k]
          IN e.kind = "symlink" /\ IsPrefix(e.target, Top(stack).canonical)

\* C6: for every event the callback emits, whatever kind tag the debouncer
\* attached to it, the emitted kind is "modify" if the path exists when the
\* event is delivered and "remove" if it does not.
C6_KindByExistence ==
    [][\A k \in (Len(sink) + 1)..Len(sink') :
          sink'[k].kind = IF exists(fs, sink'[k].path) THEN "modify" ELSE "remove"]_vars

\* C7: at any time at most one debouncer is live, that is, not dropped and
\* with a watch registered.
Live(id) == ~debouncers[id].dropped /\ debouncers[id].watched # {}

\* C7: never two live debouncers.
C7_AtMostOneLive == Cardinality({id \in DOMAIN debouncers : Live(id)}) <= 1

\* C8: when start_watching returns an error the slot is as it was before the
\* call and the new debouncer, if one was created, is dropped; a debouncer that
\* was dropped without ever being stored emits nothing afterwards.
C8_ErrorReturn ==
    (wret' = "err" /\ wpc' = "idle" /\ (wpc # "idle" \/ wret # "err")) =>
        /\ slot' = slot
        /\ wpc # "idle" => slot = wlocal.slot0
        /\ (wpc # "idle" /\ wlocal.id # 0) => debouncers'[wlocal.id].dropped

C8_NoLateDelivery ==
    \A id \in DOMAIN debouncers :
        (debouncers[id].dropped /\ ~debouncers[id].installed /\ batches'[id] # batches[id])
            => sink' = sink

\* C8: both at every step.
C8_FailedStartDiscards == [][C8_ErrorReturn /\ C8_NoLateDelivery]_vars

\* C9: once stop_watching has returned, nothing is emitted until a later
\* start_watching has succeeded.
C9_QuietAfterStop == [][quiet => sink' = sink]_vars

\* C10: in every directory node of a scan, all directory children precede all
\* file children, and within each group the children are in case-sensitive
\* lexicographic order of name.
C10_ChildrenOrdered ==
    \A r \in NodeRefs : LET n == Node(r) IN
        \A i, j \in DOMAIN n.children :
            i < j =>
                LET x == n.children[i]
                    y == n.children[j]
                IN /\ ~(~x.is_directory /\ y.is_directory)
                   /\ (x.is_directory = y.is_directory) => BytesLess(x.name, y.name)

\* C11: for a pattern with exactly one wildcard segment at position k,
\* expand_scope returns exactly, each once, the paths E/segments[k+1..] for the
\* entries E of hq/segments[0..k] that are directories or symlinks, have a
\* non-excluded name and whose extended path resolves to a directory; an
\* unreadable prefix directory gives the empty result; a pattern without
\* wildcard gives the single joined path, whether it exists or not.
Wildcards(scope) == {i \in DOMAIN scope : scope[i] = STAR}

C11_Expected(f, hq, scope) ==
    IF Wildcards(scope) = {} THEN {hq \o scope}
    ELSE LET k      == CHOOSE i \in Wildcards(scope) : TRUE
             prefix == hq \o SubSeq(scope, 1, k - 1)
             rest   == SubSeq(scope, k + 1, Len(scope))
             m      == metadata(f, prefix)
         IN IF ~read_dir(f, prefix).ok THEN {}
            ELSE { join(prefix, e.name) \o rest :
                     e \in {x \in f : /\ x.dir = m.canon
                                      /\ x.kind \in {"dir", "symlink"}
                                      /\ ~should_exclude(x.name)
                                      /\ metadata(f, join(prefix, x.name) \o rest).ok
                                      /\ metadata(f, join(prefix, x.name) \o rest).kind = "dir"} }

C11_ExpandExact ==
    (pc = "expanded" /\ Cardinality(Wildcards(scopes[1])) <= 1) =>
        /\ {scope_paths[i] : i \in DOMAIN scope_paths} = C11_Expected(fs, hq_path, scopes[1])
        /\ Len(scope_paths) = Cardinality(C11_Expected(fs, hq_path, scopes[1]))

\* A wildcard whose listing holds a symlink to a directory, which is returned,
\* and an entry that is left out.
C11_Witness ==
    /\ pc = "expanded"
    /\ Cardinality(Wildcards(scopes[1])) = 1
    /\ LET k      == CHOOSE i \in Wildcards(scopes[1]) : TRUE
           prefix == hq_path \o SubSeq(scopes[1], 1, k - 1)
       IN /\ \E i \in DOMAIN scope_paths :
                \E e \in read_dir(fs, prefix).entries :
                    e.kind = "symlink" /\ IsPrefix(join(prefix, e.name), scope_paths[i])
          /\ Len(scope_paths) < Cardinality(read_dir(fs, prefix).entries)

\* C12: the watcher drops an event exactly when the scanner leaves its path out
\* of the tree because of the exclusion policy.  The scan of a root goes
\* through should_exclude for the name of every entry below the root, at every
\* level, never for the root or what lies above it; the directories watched are
\* the roots scanned for the same hq_path and patterns.  So: an event below a
\* watched directory is dropped if and only if one of its components below that
\* directory is excluded.  Stated for the debouncer held in WatcherState.
scan_excludes(root, path) ==
    \E i \in (Len(root) + 1)..Len(path) : should_exclude(path[i])

C12_SameInclusion ==
    [][\A id \in DOMAIN batches :
          (/\ debouncers[id].installed /\ ~debouncers[id].dropped
           /\ batches[id] # <<>> /\ batches'[id] = Tail(batches[id])) =>
              \A d \in debouncers[id].watched :
                  IsPrefix(d, Head(batches[id]).path) =>
                      ((sink' = sink) <=> scan_excludes(d, Head(batches[id]).path))]_vars

\* C13: for every directory node a scan returns, fileCount is the number of
\* file nodes in the node's subtree, which is the number of its file children
\* plus the fileCount of each of its directory children; every file node has
\* fileCount 0 and no children.
RECURSIVE SumFileCount(_)
SumFileCount(children) ==
    IF children = <<>> THEN 0 ELSE Head(children).file_count + SumFileCount(Tail(children))

FilesBelow(n) == Cardinality({q \in Positions(n) : ~NodeAt(n, q).is_directory})

C13_FileCountExact ==
    \A r \in NodeRefs : LET n == Node(r) IN
        IF n.is_directory
        THEN /\ n.file_count = FilesBelow(n)
             /\ n.file_count = Cardinality({i \in DOMAIN n.children : ~n.children[i].is_directory})
                                + SumFileCount(n.children)
        ELSE n.file_count = 0 /\ n.children = <<>>

\* A returned directory node with a file child and a directory child.
C13_Witness ==
    \E r \in NodeRefs :
        /\ \E c \in Children(Node(r)) : c.is_directory /\ c.file_count > 0
        /\ \E c \in Children(Node(r)) : ~c.is_directory
        /\ Node(r).file_count >= 2

\* C14: every non-root node of a scanned tree has path equal to its parent's
\* path joined with the node's name, also below a directory that was reached
\* through a symlink.  Stated for scans that no file-system change interleaves.
C14_CallerPathScheme ==
    fsChanges = 0 =>
        \A r \in NodeRefs : \A c \in Children(Node(r)) :
            c.path = join(Node(r).path, c.name)

====
